---------------------------- MODULE Spec2Model ----------------------------
(***************************************************************************)
(* Model of the flat-file employee database (dbview): src/src/main.c,      *)
(* src/src/parse.c, src/include/parse.h and the file helpers in            *)
(* src/unnamed/part_001.                                                   *)
(*                                                                         *)
(* One run of main() is a sequence of steps                                *)
(*   Start -> ReadEmployees -> [AddEmployee] -> [ListEmployees]            *)
(*         -> [DeleteEmployee] -> OutputFile                               *)
(* and the file on disk is the only state that survives from one run to    *)
(* the next.                                                               *)
(*                                                                         *)
(* Data representation.                                                    *)
(*  - A character is its byte value (65 is 'A', 44 is ','); a C string is  *)
(*    the sequence of its non-zero bytes, without the terminator.          *)
(*  - A char[256] field is [txt, last]: txt is the run of non-zero bytes   *)
(*    the array starts with (at most 255 of them), the bytes that follow   *)
(*    it up to index 254 are zero, and last is the byte at index 255.      *)
(*    Every array the program builds has that shape: strncpy(dst, src,     *)
(*    255) writes the text and zero-fills up to index 254 and never        *)
(*    touches index 255.                                                   *)
(*  - An integer in memory is its value as the host reads it; on disk it   *)
(*    is the sequence of bytes the host holds for it (MemBytes16/32).      *)
(*  - The file is its header bytes (at most 12), the whole 516-byte        *)
(*    records that follow, and `junk`, the number of further 516-byte      *)
(*    blocks whose content came from reads past the end of the record      *)
(*    array and is indeterminate.                                          *)
(*                                                                         *)
(*  - An array or a file of COUNT_MAX elements or more is kept in the state*)
(*    as a run, <<[run |-> k, of |-> e]>> followed by the elements after   *)
(*    its first k, which all equal e; Unpack gives the array back.         *)
(*  - Every function hands back, next to its result, the system calls it   *)
(*    made on the descriptor, in order; what they leave in the file is     *)
(*    Effect.                                                              *)
(*                                                                         *)
(* Left out: a run without -f (main prints the usage and returns), and     *)
(* failures of calloc, realloc, open(O_CREAT), lseek and read.             *)
(* calloc(0, ..) returns a pointer, as it does with glibc and on macOS.    *)
(***************************************************************************)
EXTENDS Integers, Sequences, FiniteSets, TLC

VARIABLES
    hostLE,     \* TRUE on a little-endian host, FALSE on a big-endian one
    file,       \* the database file on disk
    pc,         \* where main() stands: "idle" (no process), "read", "add", "list", "delete", "save"
    args,       \* the flags of the running invocation
    header,     \* struct db_header_t* header of main()
    employees,  \* struct employee_t* employees of main(), header->count elements
    last,       \* history: the last function that ran, with what it was given and returned
    saved,      \* history: the list (header.count records) handed to the last output_file
    hist        \* history: the records the calls made so far should have left, on disk and in memory

vars == <<hostLE, file, pc, args, header, employees, last, saved, hist>>

-----------------------------------------------------------------------------
(* Bounds of the exploration *)

\* -a is given only while the stored count is below MaxCount
MaxCount == 2

-----------------------------------------------------------------------------
(* Program constants *)

HEADER_MAGIC == 1280065860          \* 0x4c4c4144
HEADER_VERSION == 1
COUNT_MAX == 65535                  \* the largest unsigned short count
HEADER_SIZE == 12                   \* sizeof(struct db_header_t): 4 + 2 + 2 + 4
NAME_SIZE == 256                    \* char name[256], char address[256]
EMPLOYEE_SIZE == 516                \* sizeof(struct employee_t): 256 + 256 + 4
Comma == 44                         \* the delimiter "," of strtok
Digit0 == 48                        \* '0'

STATUS_SUCCESS == "STATUS_SUCCESS"
STATUS_ERROR == "STATUS_ERROR"
\* a function that runs off its end without a return statement returns no defined value
NO_RETURN == "no return value"
\* the process was killed by a fault (a NULL or out-of-bounds access)
CRASH == "crash"

-----------------------------------------------------------------------------
(* Sequences and C strings *)

Min(a, b) == IF a < b THEN a ELSE b

Rep(c, n) == [i \in 1..n |-> c]

Take(s, n) == SubSeq(s, 1, Min(n, Len(s)))

\* the bytes of s before its first zero byte (all of s when it holds none)
\* the least index of s that holds byte c, or Len(s) + 1 when none does
IndexOf(s, c) ==
    LET at == {i \in 1..Len(s) : s[i] = c}
    IN  IF at = {} THEN Len(s) + 1 ELSE CHOOSE i \in at : \A j \in at : i <= j

UpToNul(s) == SubSeq(s, 1, IndexOf(s, 0) - 1)

\* long arrays of equal elements, kept as a run
IsRun(a) == a # <<>> /\ "run" \in DOMAIN a[1]

Unpack(a) ==
    IF IsRun(a)
    THEN [i \in 1..(a[1].run + Len(a) - 1) |->
            IF i <= a[1].run THEN a[1].of ELSE a[i - a[1].run + 1]] \o <<>>
    ELSE a

Length(a) == IF IsRun(a) THEN a[1].run + Len(a) - 1 ELSE Len(a)

PackRun(s) ==
    LET d == {i \in 1..Len(s) : s[i] # s[1]}
        k == IF d = {} THEN Len(s) ELSE (CHOOSE i \in d : \A j \in d : i <= j) - 1
    IN  <<[run |-> k, of |-> s[1]]>> \o SubSeq(s, k + 1, Len(s))

Pack(s) == IF Len(s) < COUNT_MAX THEN s ELSE PackRun(s \o <<>>)

\* what fills memory the program never initialised: zero bytes (fresh pages), or
\* some other fill (0xFF stands for every non-zero content)
Indeterminate == {0, 255}


-----------------------------------------------------------------------------
(* Byte order: htons/htonl/ntohs/ntohl and the bytes of an integer in memory *)

Bswap16(x) == (x % 256) * 256 + (x \div 256)

Bswap32(x) == (x % 256) * 16777216 + ((x \div 256) % 256) * 65536
              + ((x \div 65536) % 256) * 256 + (x \div 16777216)

\* a conversion that leaves the host order
htons_hostorder(x) == x

htons(x) == IF hostLE THEN Bswap16(x) ELSE x
htonl(x) == IF hostLE THEN Bswap32(x) ELSE x
ntohs(x) == IF hostLE THEN Bswap16(x) ELSE x
ntohl(x) == IF hostLE THEN Bswap32(x) ELSE x

\* big-endian (network order) bytes of a value, and the value of such bytes
BE16(v) == <<v \div 256, v % 256>>
BE32(v) == <<v \div 16777216, (v \div 65536) % 256, (v \div 256) % 256, v % 256>>
ValBE16(b) == b[1] * 256 + b[2]
ValBE32(b) == b[1] * 16777216 + b[2] * 65536 + b[3] * 256 + b[4]

Reverse(b) == [i \in 1..Len(b) |-> b[Len(b) + 1 - i]]

\* the bytes write() takes from an integer object, and the value read() leaves in one
MemBytes16(v) == IF hostLE THEN Reverse(BE16(v)) ELSE BE16(v)
MemBytes32(v) == IF hostLE THEN Reverse(BE32(v)) ELSE BE32(v)
MemVal16(b) == IF hostLE THEN ValBE16(Reverse(b)) ELSE ValBE16(b)
MemVal32(b) == IF hostLE THEN ValBE32(Reverse(b)) ELSE ValBE32(b)

-----------------------------------------------------------------------------
(* struct employee_t and its char[256] fields *)

\* a field of calloc'ed memory
ZeroField == [txt |-> <<>>, last |-> 0]

ZeroEmployee == [name |-> ZeroField, address |-> ZeroField, hours |-> 0]

\* a copy without the bound (strcpy)
StrncpyNoBound(dst, src, n) == [txt |-> UpToNul(src), last |-> dst.last]

\* strncpy(dst, src, n) with n = sizeof(dst) - 1: the first n bytes of dst become the
\* string src, cut at n bytes and zero-filled up to n; the byte at index n is not written
Strncpy(dst, src, n) == [txt |-> Take(UpToNul(src), n), last |-> dst.last]

\* the bytes strncpy(.., f, n) reads from the array f: up to its first zero byte, at most n
FieldPrefix(f, n) == Take(f.txt, n)

\* the string a reader (printf "%s", strcmp) finds at e->address: the array holds no
\* terminator when txt fills indices 0..254 and last is not zero, and the reader
\* then runs on into hours (the model follows it to the end of the record)
AddressStr(e) ==
    IF Len(e.address.txt) < NAME_SIZE - 1 \/ e.address.last = 0
    THEN e.address.txt
    ELSE e.address.txt \o <<e.address.last>> \o UpToNul(MemBytes32(e.hours))

\* the string a reader finds at e->name; without a terminator it runs on into address
NameStr(e) ==
    IF Len(e.name.txt) < NAME_SIZE - 1 \/ e.name.last = 0
    THEN e.name.txt
    ELSE e.name.txt \o <<e.name.last>> \o AddressStr(e)

-----------------------------------------------------------------------------
(* strtok and atoi *)

\* s from its first byte that is not a delimiter
SkipDelims(s) ==
    LET at == {i \in 1..Len(s) : s[i] # Comma}
    IN  IF at = {} THEN <<>> ELSE SubSeq(s, CHOOSE i \in at : \A j \in at : i <= j, Len(s))

\* s up to its first delimiter
UpToDelim(s) == SubSeq(s, 1, IndexOf(s, Comma) - 1)

\* one call of strtok(.., ","): skips leading delimiters, returns NULL at the end of
\* the string, else the token up to the next delimiter; rest is where the next call resumes
Strtok(s) ==
    LET t == SkipDelims(s)
        tok == UpToDelim(t)
    IN  IF t = <<>>
        THEN [null |-> TRUE, tok |-> <<>>, rest |-> <<>>]
        ELSE [null |-> FALSE, tok |-> tok,
              rest |-> IF Len(tok) = Len(t) THEN <<>> ELSE SubSeq(t, Len(tok) + 2, Len(t))]

RECURSIVE AtoiAcc(_, _)
AtoiAcc(s, acc) ==
    IF s = <<>> \/ Head(s) < Digit0 \/ Head(s) > Digit0 + 9
    THEN acc
    ELSE AtoiAcc(Tail(s), acc * 10 + (Head(s) - Digit0))

\* atoi of an unsigned decimal string: the value of its leading digits
Atoi(s) == AtoiAcc(s, 0)

-----------------------------------------------------------------------------
(* The file *)

NoFile == [exists |-> FALSE, hdr |-> <<>>, recs |-> <<>>, junk |-> 0]
MkFile(hdr, recs) == [exists |-> TRUE, hdr |-> hdr, recs |-> recs, junk |-> 0]

FileSize(f) == Len(f.hdr) + EMPLOYEE_SIZE * (Len(f.recs) + f.junk)

\* create_db_file: open(path, O_RDWR | O_CREAT, 0644) creates an empty file where
\* the path holds none and leaves an existing file as it is
create_db_file(f) ==
    [status |-> STATUS_SUCCESS, file |-> IF f.exists THEN f ELSE MkFile(<<>>, <<>>)]

\* an open that empties the file (O_TRUNC)
open_db_file_O_TRUNC(f) ==
    [status |-> IF f.exists THEN STATUS_SUCCESS ELSE STATUS_ERROR,
     file   |-> IF f.exists THEN MkFile(<<>>, <<>>) ELSE f]

\* open_db_file: open(path, O_RDWR) fails where the path holds no file
open_db_file(f) ==
    [status |-> IF f.exists THEN STATUS_SUCCESS ELSE STATUS_ERROR, file |-> f]

\* A system call on the descriptor: n is the length, offset or size it was given,
\* what and index say which object a write takes its bytes from, ret is its result.
Call(call, what, index, n, ret) ==
    [call |-> call, what |-> what, index |-> index, n |-> n, ret |-> ret]

Ftruncate(length, ret) == Call("ftruncate", "", -1, length, ret)
Lseek(offset) == Call("lseek", "", -1, offset, offset)
Read(n, ret) == Call("read", "", -1, n, ret)
Fstat == Call("fstat", "", -1, 0, 0)
Write(what, index, n, ret) == Call("write", what, index, n, ret)

NoCalls == <<>>

Truncates(c) == c.call = "ftruncate" /\ c.n = 0 /\ c.ret = 0
Writes(c) == c.call = "write" /\ c.ret > 0
WritesRecord(c) == Writes(c) /\ c.what = "record"

\* What calls leave of the file f. lseek, read and fstat change nothing. The
\* writes follow ftruncate(fd, 0) and lseek(fd, 0) and lay their bytes end to end
\* from offset 0: hbytes are the bytes of the header object, ebytes those of the
\* elements of the array; a record write from an index past the array leaves an
\* indeterminate block.
Effect(f, calls, hbytes, ebytes) ==
    LET truncated == SelectSeq(calls, Truncates) # <<>>
        w == SelectSeq(calls, Writes)
        inside(c) == WritesRecord(c) /\ c.index < Len(ebytes)
        past(c) == WritesRecord(c) /\ c.index >= Len(ebytes)
        r == SelectSeq(w, inside)
    IN  IF calls = NoCalls
        THEN f
        ELSE IF w = <<>>
        THEN IF truncated THEN MkFile(<<>>, <<>>) ELSE f
        ELSE [exists |-> TRUE,
              hdr    |-> IF w[1].what = "header" THEN Take(hbytes, w[1].ret) ELSE <<>>,
              recs   |-> [k \in 1..Len(r) |-> ebytes[r[k].index + 1]],
              junk   |-> Len(SelectSeq(w, past))]

\* on-disk image of a header and of a record (network byte order)
HeaderImage(magic, version, count, filesize) ==
    BE32(magic) \o BE16(version) \o BE16(count) \o BE32(filesize)

RecordImage(name, address, hours) ==
    [name |-> [txt |-> name, last |-> 0], address |-> [txt |-> address, last |-> 0],
     hours |-> BE32(hours)]


-----------------------------------------------------------------------------
(* parse.c: the header *)

ZeroHeader == [magic |-> 0, version |-> 0, count |-> 0, filesize |-> 0]

\* a header left as calloc returns it
create_db_header_unset == ZeroHeader

\* create_db_header: a calloc'ed header with version, count, magic and filesize set;
\* its fd parameter is not used
create_db_header ==
    [magic |-> HEADER_MAGIC, version |-> HEADER_VERSION, count |-> 0, filesize |-> HEADER_SIZE]

\* the struct as read() leaves it (raw bytes in the fields), then ntohs/ntohl in place
DecodeHeader(b) ==
    [magic    |-> ntohl(MemVal32(SubSeq(b, 1, 4))),
     version  |-> ntohs(MemVal16(SubSeq(b, 5, 6))),
     count    |-> ntohs(MemVal16(SubSeq(b, 7, 8))),
     filesize |-> ntohl(MemVal32(SubSeq(b, 9, 12)))]

invalidVersion(h) == h.version # HEADER_VERSION
invalidMagic(h) == h.magic # HEADER_MAGIC

\* the size check left out
invalidFilesizeSkipped(h, f) == FALSE

\* header->filesize != dbstat.st_size
invalidFilesize(h, f) == h.filesize # FileSize(f)

\* a validation that does not look at what read() returned: the checks run on the
\* calloc'ed header with the bytes that were read in front
retrieve_and_validate_db_header_read_unchecked(f) ==
    LET bytes_read == Len(f.hdr)
        h == DecodeHeader(f.hdr \o [i \in 1..(HEADER_SIZE - bytes_read) |-> 0])
        calls == <<Lseek(0), Read(HEADER_SIZE, bytes_read), Fstat>>
    IN  IF invalidVersion(h) \/ invalidMagic(h) \/ invalidFilesize(h, f)
        THEN [status |-> STATUS_ERROR, header |-> ZeroHeader,
              msgs |-> (IF invalidVersion(h) THEN {"Invalid version"} ELSE {})
                       \cup (IF invalidFilesize(h, f) THEN {"Invalid filesize"} ELSE {})
                       \cup (IF invalidMagic(h) THEN {"Invalid magic"} ELSE {}),
              calls |-> calls]
        ELSE [status |-> STATUS_SUCCESS, header |-> h, msgs |-> {}, calls |-> calls]

\* a validation that reports the first failing check and stops
retrieve_and_validate_db_header_first_only(f) ==
    LET bytes_read == Len(f.hdr)
        h == DecodeHeader(f.hdr)
        calls == <<Lseek(0), Read(HEADER_SIZE, bytes_read), Fstat>>
    IN  IF bytes_read # HEADER_SIZE
        THEN [status |-> STATUS_ERROR, header |-> ZeroHeader, msgs |-> {"valid_bytes_read"},
              calls |-> <<Lseek(0), Read(HEADER_SIZE, bytes_read)>>]
        ELSE IF invalidVersion(h)
        THEN [status |-> STATUS_ERROR, header |-> ZeroHeader, msgs |-> {"Invalid version"},
              calls |-> calls]
        ELSE IF invalidFilesize(h, f)
        THEN [status |-> STATUS_ERROR, header |-> ZeroHeader, msgs |-> {"Invalid filesize"},
              calls |-> calls]
        ELSE IF invalidMagic(h)
        THEN [status |-> STATUS_ERROR, header |-> ZeroHeader, msgs |-> {"Invalid magic"},
              calls |-> calls]
        ELSE [status |-> STATUS_SUCCESS, header |-> h, msgs |-> {}, calls |-> calls]

\* retrieve_and_validate_db_header on an open file: the status, the header handed
\* back through headerOut (none on error), the set of checks reported and the
\* calls made on the descriptor
retrieve_and_validate_db_header(f) ==
    LET bytes_read == Len(f.hdr)
        valid_bytes_read == bytes_read = HEADER_SIZE
        h == DecodeHeader(f.hdr)
    IN  IF ~valid_bytes_read
        THEN [status |-> STATUS_ERROR, header |-> ZeroHeader, msgs |-> {"valid_bytes_read"},
              calls |-> <<Lseek(0), Read(HEADER_SIZE, bytes_read)>>]
        ELSE IF invalidVersion(h) \/ invalidMagic(h) \/ invalidFilesize(h, f)
        THEN [status |-> STATUS_ERROR, header |-> ZeroHeader,
              msgs |-> (IF invalidVersion(h) THEN {"Invalid version"} ELSE {})
                       \cup (IF invalidFilesize(h, f) THEN {"Invalid filesize"} ELSE {})
                       \cup (IF invalidMagic(h) THEN {"Invalid magic"} ELSE {}),
              calls |-> <<Lseek(0), Read(HEADER_SIZE, bytes_read), Fstat>>]
        ELSE [status |-> STATUS_SUCCESS, header |-> h, msgs |-> {},
              calls |-> <<Lseek(0), Read(HEADER_SIZE, bytes_read), Fstat>>]

-----------------------------------------------------------------------------
(* parse.c: read_employees *)

\* what a read past the records holds when it falls into the indeterminate blocks
GarbageEmployees == {ZeroEmployee, [name |-> [txt |-> <<255>>, last |-> 255],
                                    address |-> [txt |-> <<255>>, last |-> 255], hours |-> 1]}

\* element i (from 1) of the array after read() and the ntohl loop: the record of
\* the file, or what the indeterminate blocks hold (g), or the zeros calloc left
\* where the file ended and read() returned short
ReadEmployee(f, i, g) ==
    IF i <= Len(f.recs)
    THEN [name |-> f.recs[i].name, address |-> f.recs[i].address,
          hours |-> ntohl(MemVal32(f.recs[i].hours))]
    ELSE IF i <= Len(f.recs) + f.junk
    THEN g
    ELSE [ZeroEmployee EXCEPT !.hours = ntohl(0)]

\* read_employees: count elements; the result of read() is not looked at
read_employees(f, h, g) == [i \in 1..h.count |-> ReadEmployee(f, i, g)]

\* the calls of read_employees on the descriptor
read_employees_calls(f, h) ==
    <<Lseek(HEADER_SIZE),
      Read(h.count * EMPLOYEE_SIZE, Min(h.count * EMPLOYEE_SIZE, FileSize(f) - Len(f.hdr)))>>

-----------------------------------------------------------------------------
(* parse.c: add_employee *)

\* the element realloc appended, before it is filled: its bytes hold the fill j
\* (only name[255] and address[255] are never overwritten)
UninitEmployee(j) ==
    [name |-> [txt |-> <<>>, last |-> j], address |-> [txt |-> <<>>, last |-> j], hours |-> 0]

\* add_employee(header, &employees, addstring); j is what the memory realloc
\* appended holds. The array grows to header->count + 1 elements (computed in
\* int); count++ is done in unsigned short, and lastindex = count - 1 is -1 when it
\* wrapped: the fields are then written before the array (oob) and the appended
\* element stays as realloc left it. The function is not given the descriptor.
add_employee(h, emps, addstring, j) ==
    LET t1 == Strtok(addstring)
        t2 == Strtok(t1.rest)
        t3 == Strtok(t2.rest)
        count1 == (h.count + 1) % 65536
        lastindex == count1 - 1
        e0 == UninitEmployee(j)
        e == [name    |-> Strncpy(e0.name, t1.tok, NAME_SIZE - 1),
              address |-> Strncpy(e0.address, t2.tok, NAME_SIZE - 1),
              hours   |-> Atoi(t3.tok)]
    IN  IF t1.null
        THEN [status |-> STATUS_ERROR, header |-> h, employees |-> emps, oob |-> 0,
              calls |-> NoCalls]
        ELSE IF t2.null \/ t3.null
        \* strncpy from a NULL addr, or atoi(NULL)
        THEN [status |-> CRASH, header |-> [h EXCEPT !.count = count1], employees |-> emps,
              oob |-> 0, calls |-> NoCalls]
        ELSE [status |-> STATUS_SUCCESS, header |-> [h EXCEPT !.count = count1],
              employees |-> Append(emps, IF lastindex < 0 THEN e0 ELSE e),
              oob |-> IF lastindex < 0 THEN 1 ELSE 0, calls |-> NoCalls]

-----------------------------------------------------------------------------
(* parse.c: delete_employee and list_employees *)

\* the loop of lines 173..188: the least index (from 1) whose name equals name,
\* or count + 1 when the loop runs to its end
delete_index(emps, count, name) ==
    LET at == {i \in 1..count : NameStr(emps[i]) = name}
    IN  IF at = {} THEN count + 1 ELSE CHOOSE i \in at : \A j \in at : i <= j

\* the copy of a kept element into the calloc'ed array
CopyEmployee(e) ==
    [name    |-> Strncpy(ZeroField, FieldPrefix(e.name, NAME_SIZE - 1), NAME_SIZE - 1),
     address |-> Strncpy(ZeroField, FieldPrefix(e.address, NAME_SIZE - 1), NAME_SIZE - 1),
     hours   |-> e.hours]

\* the loop of lines 200..209 over old_count elements: all but the one at d, in order
CopyExcept(emps, old_count, d) ==
    [k \in 1..(old_count - 1) |-> CopyEmployee(emps[IF k < d THEN k ELSE k + 1])]

\* a delete that empties the file at once
delete_employee_truncating(h, emps, name) ==
    LET d == delete_index(emps, h.count, name)
    IN  IF d <= h.count
        THEN [status |-> NO_RETURN, header |-> [h EXCEPT !.count = h.count - 1],
              employees |-> CopyExcept(emps, h.count, d), oob |-> 0,
              calls |-> <<Ftruncate(0, 0)>>]
        ELSE [status |-> NO_RETURN, header |-> h, employees |-> emps, oob |-> 1,
              calls |-> NoCalls]

\* delete_employee(header, &employees, name): oob counts the elements read past
\* the array (line 190 prints employees[delete_index].name also when the loop
\* found nothing); the function has no return statement on this path, and it is
\* not given the descriptor
delete_employee(h, emps, name) ==
    LET d == delete_index(emps, h.count, name)
        deletion_takes_place == d <= h.count
    IN  IF deletion_takes_place
        THEN [status |-> NO_RETURN, header |-> [h EXCEPT !.count = h.count - 1],
              employees |-> CopyExcept(emps, h.count, d), oob |-> 0, calls |-> NoCalls]
        ELSE [status |-> NO_RETURN, header |-> h, employees |-> emps,
              oob |-> IF d > Len(emps) THEN 1 ELSE 0, calls |-> NoCalls]

\* list_employees: the lines printed
list_employees(h, emps) ==
    [i \in 1..h.count |-> <<NameStr(emps[i]), AddressStr(emps[i]), emps[i].hours>>]


-----------------------------------------------------------------------------
(* parse.c: output_file *)

\* line 100: the size computed from header->count as line 99 left it
PackedFilesize(h) == HEADER_SIZE + EMPLOYEE_SIZE * htons(h.count)

\* lines 97..100: the header converted in place
PackHeader(h) ==
    [magic    |-> htonl(h.magic),
     version  |-> htons(h.version),
     count    |-> htons(h.count),
     filesize |-> htonl(PackedFilesize(h))]

\* the 12 bytes write() takes from the header
HeaderBytes(h) ==
    MemBytes32(h.magic) \o MemBytes16(h.version) \o MemBytes16(h.count) \o MemBytes32(h.filesize)

\* the 516 bytes write() takes from employees[i] after line 105
EmployeeBytes(e) == [name |-> e.name, address |-> e.address, hours |-> MemBytes32(htonl(e.hours))]

\* What can go wrong with the descriptor during output_file: nothing, ftruncate
\* fails, every write fails (a full disk), or the header write is cut short after
\* 5 bytes and the writes after it fail.
IoOutcomes == {"ok", "ftruncate fails", "writes fail", "write partial"}

HeaderWritten(io) == IF io = "ok" THEN HEADER_SIZE ELSE IF io = "write partial" THEN 5 ELSE -1
RecordWritten(io) == IF io = "ok" THEN EMPLOYEE_SIZE ELSE -1

\* the calls of output_file with records written first and the header last
SaveCallsHeaderLast(iterations, io) ==
    <<Ftruncate(0, 0), Lseek(0)>>
    \o [i \in 1..iterations |-> Write("record", i - 1, EMPLOYEE_SIZE, RecordWritten(io))]
    \o <<Write("header", -1, HEADER_SIZE, HeaderWritten(io))>>

\* lines 91..107 when ftruncate succeeds: the calls of output_file on the
\* descriptor, its loop running `iterations` times
SaveCalls(iterations, io) ==
    <<Ftruncate(0, 0), Lseek(0), Write("header", -1, HEADER_SIZE, HeaderWritten(io))>>
    \o [i \in 1..iterations |-> Write("record", i - 1, EMPLOYEE_SIZE, RecordWritten(io))]

\* output_file(fd, header, employees) on an array of Len(emps) elements. When
\* ftruncate fails it closes the descriptor and returns -1, which is STATUS_ERROR.
\* Else the loop runs to the converted header->count: the iterations below
\* Len(emps) convert and write the elements, the others (oob) read and write past
\* the array. Such an access either faults, after `fault` of them went through
\* (fault < oob), or goes through and write() takes an indeterminate block
\* (fault = oob: none faulted). The results of write() are added up and printed,
\* and the function returns STATUS_SUCCESS whatever they were.
output_file(f, h, emps, fault, io) ==
    LET h1 == PackHeader(h)
        n == Len(emps)
        inside == Min(h1.count, n)
        oob == h1.count - inside
        calls == SaveCalls(inside + Min(fault, oob), io)
    IN  IF io = "ftruncate fails"
        THEN [status |-> STATUS_ERROR, header |-> h, employees |-> emps, oob |-> 0,
              calls |-> <<Ftruncate(0, -1)>>,
              file |-> Effect(f, <<Ftruncate(0, -1)>>, <<>>, <<>>)]
        ELSE [status |-> IF fault < oob THEN CRASH ELSE STATUS_SUCCESS,
              header |-> h1,
              employees |-> [i \in 1..n |-> IF i <= inside
                                             THEN [emps[i] EXCEPT !.hours = htonl(@)]
                                             ELSE emps[i]],
              oob    |-> IF fault < oob THEN fault + 1 ELSE oob,
              calls  |-> calls,
              file   |-> Effect(f, calls, HeaderBytes(h1),
                                [i \in 1..n |-> EmployeeBytes(emps[i])])]

\* the number of iterations of the loop of output_file that fall past the array
OobIterations(h, emps) == htons(h.count) - Min(htons(h.count), Len(emps))

\* where such a save may fault: at the first access past the array (the later ones
\* leave a file of the same kind, shorter than its header says), or nowhere
Faults(oob) == {0, oob}

\* the ways a save may go when the descriptor may fail as ios says: a fault and a
\* failure of the descriptor are not combined
SaveOutcomes(oob, ios) ==
    {[fault |-> fault, io |-> "ok"] : fault \in Faults(oob)}
    \cup {[fault |-> oob, io |-> io] : io \in ios \ {"ok"}}


-----------------------------------------------------------------------------
(* Inputs: command lines and the files found on disk *)

NoArg == [given |-> FALSE, s |-> <<>>]
Arg(s) == [given |-> TRUE, s |-> s]
NoArgs == [newfile |-> FALSE, add |-> NoArg, list |-> FALSE, del |-> NoArg]

Name255 == Rep(67, NAME_SIZE - 1)
Name300 == Rep(68, 300)
Address256 == Rep(90, NAME_SIZE)

\* -a: "B,Y,37", a name of 255 characters, a name of 300 with an address of 256
AddBY37 == <<66, Comma, 89, Comma, 51, 55>>

AddStrings ==
    { AddBY37,
      Name255 \o <<Comma, 88, Comma, 49>>,
      Name300 \o <<Comma>> \o Address256 \o <<Comma, 50>> }

\* -a with fields missing: "" (no name), "B" (no address), "B,Y" (no hours)
ShortAddStrings == { <<>>, <<66>>, <<66, Comma, 89>> }

\* -d: "B"
DeleteNames == { <<66>> }

RecA == RecordImage(<<65>>, <<88>>, 30)
RecB == RecordImage(<<66>>, <<89>>, 7)
RecB2 == RecordImage(<<66>>, <<88>>, 9)

ValidFile(recs) ==
    MkFile(HeaderImage(HEADER_MAGIC, HEADER_VERSION, Len(recs),
                       HEADER_SIZE + EMPLOYEE_SIZE * Len(recs)), recs)

\* the files a run may find: none, an empty one, well-formed stores of 1 and 3
\* records (-n leaves the one of 0 records), a header cut short, headers wrong in the magic, the
\* version, the size, and in the count alone (one record declared, none stored),
\* headers wrong in two of magic, version and size, and in all three
InitFiles ==
    { NoFile,
      MkFile(<<>>, <<>>),
      ValidFile(<<RecA>>),
      ValidFile(<<RecA, RecB, RecB2>>),
      MkFile(SubSeq(HeaderImage(HEADER_MAGIC, HEADER_VERSION, 0, HEADER_SIZE), 1, 5), <<>>),
      MkFile(HeaderImage(HEADER_MAGIC + 1, HEADER_VERSION, 0, HEADER_SIZE), <<>>),
      MkFile(HeaderImage(HEADER_MAGIC, HEADER_VERSION + 1, 0, HEADER_SIZE), <<>>),
      MkFile(HeaderImage(HEADER_MAGIC, HEADER_VERSION, 1, HEADER_SIZE + EMPLOYEE_SIZE), <<>>),
      MkFile(HeaderImage(HEADER_MAGIC, HEADER_VERSION, 0, HEADER_SIZE), <<RecA>>),
      MkFile(HeaderImage(HEADER_MAGIC, HEADER_VERSION, 1, HEADER_SIZE), <<>>),
      MkFile(HeaderImage(HEADER_MAGIC + 1, HEADER_VERSION + 1, 0, HEADER_SIZE), <<>>),
      MkFile(HeaderImage(HEADER_MAGIC + 1, HEADER_VERSION, 0, HEADER_SIZE + 1), <<>>),
      MkFile(HeaderImage(HEADER_MAGIC, HEADER_VERSION + 1, 0, HEADER_SIZE + 1), <<>>),
      MkFile(HeaderImage(HEADER_MAGIC + 1, HEADER_VERSION + 1, 0, HEADER_SIZE + 1), <<>>) }

\* a well-formed store of as many records as count can tell
FullStore ==
    MkFile(HeaderImage(HEADER_MAGIC, HEADER_VERSION, COUNT_MAX,
                       HEADER_SIZE + EMPLOYEE_SIZE * COUNT_MAX),
           <<[run |-> COUNT_MAX, of |-> RecA]>>)

\* the count field of the file's header (0 when the header is incomplete)
StoredCount(f) == IF Len(f.hdr) = HEADER_SIZE THEN ValBE16(SubSeq(f.hdr, 7, 8)) ELSE 0

-----------------------------------------------------------------------------
(* main.c *)

\* What is kept of the last function that ran: what it was given (header,
\* employees, arg, and file, the file as it found it), its status, the calls it
\* made on the descriptor, and what it reported.
Event(op, status, h, emps, arg) ==
    [op |-> op, status |-> status, header |-> h, employees |-> emps, arg |-> arg,
     oob |-> 0, msgs |-> {}, printed |-> <<>>, calls |-> NoCalls, io |-> "ok",
     file |-> NoFile, after |-> [header |-> ZeroHeader, employees |-> <<>>]]

NoSave == [any |-> FALSE, crashed |-> FALSE, employees |-> <<>>]

\* The expected content of a store: known says it was built from a new store (-n),
\* recs is the sequence of (name, address, hours) given to -a since, in order, less
\* the first match of every -d.
Unknown == [known |-> FALSE, recs |-> <<>>]
NewStore == [known |-> TRUE, recs |-> <<>>]

Given(addstring) ==
    LET t1 == Strtok(addstring)
        t2 == Strtok(t1.rest)
        t3 == Strtok(t2.rest)
    IN  [name |-> t1.tok, address |-> t2.tok, hours |-> Atoi(t3.tok)]

WithoutFirst(recs, name) ==
    LET at == {i \in 1..Len(recs) : recs[i].name = name}
        d == IF at = {} THEN Len(recs) + 1 ELSE CHOOSE i \in at : \A j \in at : i <= j
    IN  IF at = {} THEN recs
        ELSE [k \in 1..(Len(recs) - 1) |-> recs[IF k < d THEN k ELSE k + 1]]

Init ==
    /\ hostLE \in BOOLEAN
    /\ file \in InitFiles
    /\ pc = "idle"
    /\ args = NoArgs
    /\ header = ZeroHeader
    /\ employees = <<>>
    /\ last = Event("none", STATUS_SUCCESS, ZeroHeader, <<>>, <<>>)
    /\ saved = NoSave
    /\ hist = [disk |-> Unknown, mem |-> Unknown]

\* a run that starts on the full store
InitFull ==
    /\ hostLE \in BOOLEAN
    /\ file = FullStore
    /\ pc = "idle"
    /\ args = NoArgs
    /\ header = ZeroHeader
    /\ employees = <<>>
    /\ last = Event("none", STATUS_SUCCESS, ZeroHeader, <<>>, <<>>)
    /\ saved = NoSave
    /\ hist = [disk |-> Unknown, mem |-> Unknown]

\* The values put through the conversions on their own: 32-bit values made of the
\* bytes 0x00, 0x01, 0x34, 0x7f and 0xff (the outer bytes below 0x80: TLC's
\* integers are 32-bit signed), counts whose computed filesize stays in that range
\* on both hosts, and every 16-bit value for the version.
CodecWords ==
    {ValBE32(<<a, b, c, d>>) : a \in {0, 1, 127}, b \in {0, 52, 255},
                               c \in {0, 52, 255}, d \in {0, 1, 127}}

CodecCounts == {0, 1, 2, 255, 256, 257, COUNT_MAX}

CodecInputs ==
    {[header |-> [magic |-> w, version |-> HEADER_VERSION, count |-> c,
                  filesize |-> HEADER_SIZE + EMPLOYEE_SIZE * c],
      employees |-> <<[ZeroEmployee EXCEPT !.hours = w]>>] : w \in CodecWords, c \in CodecCounts}
    \cup
    {[header |-> [magic |-> HEADER_MAGIC, version |-> s, count |-> 0, filesize |-> HEADER_SIZE],
      employees |-> <<ZeroEmployee>>] : s \in 0..COUNT_MAX}

\* a header and one record in memory, in host order, and nothing on disk
InitCodec ==
    /\ hostLE \in BOOLEAN
    /\ file = NoFile
    /\ pc = "idle"
    /\ args = NoArgs
    /\ \E x \in CodecInputs :
          /\ header = x.header
          /\ employees = x.employees
          /\ last = Event("none", STATUS_SUCCESS, x.header, x.employees, <<>>)
    /\ saved = NoSave
    /\ hist = [disk |-> Unknown, mem |-> Unknown]

\* the array and the file of the state, in full
Mem == Unpack(employees)
Disk == [file EXCEPT !.recs = Unpack(@)]
PackFile(f) == [f EXCEPT !.recs = Pack(@)]

\* main lines 92..106: the step that follows `step`
After(step, a) ==
    IF step = "read" /\ a.add.given THEN "add"
    ELSE IF step \in {"read", "add"} /\ a.list THEN "list"
    ELSE IF step \in {"read", "add", "list"} /\ a.del.given THEN "delete"
    ELSE "save"

\* the process ends: its memory is gone
Exit ==
    /\ pc' = "idle"
    /\ args' = NoArgs
    /\ header' = ZeroHeader
    /\ employees' = <<>>

\* the process ends before output_file: nothing it did reaches the disk
Abort ==
    /\ Exit
    /\ hist' = [hist EXCEPT !.mem = Unknown]

\* main lines 22..82: the flags, then a new header (-n) or the validated header of the file
Start(newfile, add, list, del) ==
    /\ pc = "idle"
    /\ add.given => (newfile \/ StoredCount(file) < MaxCount \/ StoredCount(file) = COUNT_MAX)
    \* on a store of COUNT_MAX records the run -a "B,Y,37" alone is followed
    /\ StoredCount(file) = COUNT_MAX => (~newfile /\ add = Arg(AddBY37) /\ ~list /\ ~del.given)
    /\ UNCHANGED <<hostLE, saved>>
    /\ IF newfile
       THEN \* create_db_file, then create_db_header
            /\ hist' = [hist EXCEPT !.mem = NewStore]
            /\ file' = create_db_file(file).file
            /\ header' = create_db_header
            /\ employees' = <<>>
            /\ args' = [newfile |-> newfile, add |-> add, list |-> list, del |-> del]
            /\ pc' = "read"
            /\ last' = [Event("create_db_header", STATUS_SUCCESS, header', <<>>, <<>>)
                          EXCEPT !.file = create_db_file(file).file]
       ELSE IF open_db_file(file).status = STATUS_ERROR
       THEN /\ last' = Event("open_db_file", STATUS_ERROR, ZeroHeader, <<>>, <<>>)
            /\ hist' = [hist EXCEPT !.mem = Unknown]
            /\ file' = open_db_file(file).file
            /\ UNCHANGED <<pc, args, header, employees>>
       ELSE LET opened == open_db_file(Disk).file
            IN  \E r \in {retrieve_and_validate_db_header(opened)} :
                /\ last' = [Event("retrieve_and_validate_db_header", r.status, r.header, <<>>, <<>>)
                              EXCEPT !.msgs = r.msgs, !.calls = r.calls, !.file = file]
                /\ file' = PackFile(Effect(opened, r.calls, <<>>, <<>>))
                /\ hist' = [hist EXCEPT !.mem = IF r.status = STATUS_SUCCESS
                                                THEN hist.disk ELSE Unknown]
                /\ IF r.status = STATUS_ERROR
                   THEN UNCHANGED <<pc, args, header, employees>>
                   ELSE /\ header' = r.header
                        /\ employees' = <<>>
                        /\ args' = [newfile |-> newfile, add |-> add, list |-> list, del |-> del]
                        /\ pc' = "read"

\* main line 87
ReadEmployees ==
    /\ pc = "read"
    /\ \E g \in GarbageEmployees :
         /\ (file.junk = 0 \/ header.count <= Length(file.recs)) => g = ZeroEmployee
         /\ employees' = Pack(read_employees(Disk, header, g))
    /\ last' = [Event("read_employees", STATUS_SUCCESS, header, employees', <<>>)
                  EXCEPT !.calls = read_employees_calls(Disk, header)]
    /\ file' = Effect(file, read_employees_calls(Disk, header), <<>>, <<>>)
    /\ pc' = After("read", args)
    /\ UNCHANGED <<hostLE, args, header, saved, hist>>

\* main lines 92..94; a write before the array (oob) goes through or faults
AddEmployee ==
    /\ pc = "add"
    /\ \E j \in Indeterminate, fault \in BOOLEAN :
         \E r \in {add_employee(header, Mem, args.add.s, j)} :
         LET status == IF fault THEN CRASH ELSE r.status
         IN  /\ fault => r.oob > 0
             /\ last' = [Event("add_employee", status, header, employees, args.add.s)
                           EXCEPT !.oob = r.oob, !.calls = r.calls, !.file = file]
             /\ file' = Effect(file, r.calls, <<>>, <<>>)
             /\ IF status = CRASH
                THEN Abort
                ELSE /\ header' = r.header
                     /\ employees' = Pack(r.employees)
                     /\ pc' = After("add", args)
                     /\ hist' = IF r.status = STATUS_SUCCESS /\ hist.mem.known
                                THEN [hist EXCEPT !.mem.recs = Append(@, Given(args.add.s))]
                                ELSE hist
                     /\ UNCHANGED args
    /\ UNCHANGED <<hostLE, saved>>

\* main lines 96..98
ListEmployees ==
    /\ pc = "list"
    /\ last' = [Event("list_employees", NO_RETURN, header, employees, <<>>)
                  EXCEPT !.printed = list_employees(header, Mem)]
    /\ pc' = After("list", args)
    /\ UNCHANGED <<hostLE, file, args, header, employees, saved, hist>>

\* main lines 100..102; a read past the array (oob) goes through or faults
DeleteEmployee ==
    /\ pc = "delete"
    /\ \E r \in {delete_employee(header, Mem, args.del.s)} :
           \E fault \in BOOLEAN :
             /\ fault => r.oob > 0
             /\ last' = [Event("delete_employee", IF fault THEN CRASH ELSE r.status,
                               header, employees, args.del.s)
                           EXCEPT !.oob = r.oob, !.calls = r.calls, !.file = file]
             /\ file' = Effect(file, r.calls, <<>>, <<>>)
             /\ IF fault
                THEN Abort
                ELSE /\ header' = r.header
                     /\ employees' = Pack(r.employees)
                     /\ pc' = After("delete", args)
                     /\ hist' = [hist EXCEPT !.mem.recs = WithoutFirst(@, args.del.s)]
                     /\ UNCHANGED args
    /\ UNCHANGED <<hostLE, saved>>

\* main lines 104..108: output_file, whose result is not looked at, then the
\* process ends; last.after keeps the header and the array as output_file left
\* them in memory. A save that could not truncate leaves the file, and what is
\* known of it, as it was; one whose writes failed leaves nothing known.
Save(ios) ==
    /\ pc = "save"
    /\ \E o \in SaveOutcomes(OobIterations(header, Mem), ios) :
         \E r \in {output_file(Disk, header, Mem, o.fault, o.io)} :
         LET io == o.io
         IN  /\ file' = PackFile(r.file)
             /\ last' = [Event("output_file", r.status, header, employees, <<>>)
                           EXCEPT !.oob = r.oob, !.calls = r.calls, !.io = io,
                                  !.after = [header |-> r.header,
                                             employees |-> Pack(r.employees)]]
             /\ saved' = IF io = "ok"
                         THEN [any |-> TRUE, crashed |-> r.status = CRASH,
                               employees |-> Pack(Take(Mem, header.count))]
                         ELSE IF io = "ftruncate fails" THEN saved ELSE NoSave
             /\ hist' = [disk |-> IF io = "ok" THEN hist.mem
                                  ELSE IF io = "ftruncate fails" THEN hist.disk ELSE Unknown,
                         mem  |-> Unknown]
    /\ Exit
    /\ UNCHANGED hostLE

\* the save on a descriptor that does not fail
OutputFile == Save({"ok"})

\* the save on a descriptor that may fail
OutputFileIo == Save(IoOutcomes)

Next ==
    \/ \E newfile \in BOOLEAN, add \in {NoArg} \cup {Arg(s) : s \in AddStrings},
          list \in BOOLEAN, del \in {NoArg} \cup {Arg(s) : s \in DeleteNames} :
         Start(newfile, add, list, del)
    \/ ReadEmployees
    \/ AddEmployee
    \/ ListEmployees
    \/ DeleteEmployee
    \/ OutputFile

Spec == Init /\ [][Next]_vars

\* the same runs with failures of ftruncate and write
NextIo ==
    \/ \E newfile \in BOOLEAN, add \in {NoArg} \cup {Arg(s) : s \in AddStrings},
          list \in BOOLEAN, del \in {NoArg} \cup {Arg(s) : s \in DeleteNames} :
         Start(newfile, add, list, del)
    \/ ReadEmployees
    \/ AddEmployee
    \/ ListEmployees
    \/ DeleteEmployee
    \/ OutputFileIo

SpecIo == Init /\ [][NextIo]_vars

\* the runs whose -a lacks fields
NextShort ==
    \/ \E newfile \in BOOLEAN, add \in {NoArg} \cup {Arg(s) : s \in ShortAddStrings},
          list \in BOOLEAN, del \in {NoArg} \cup {Arg(s) : s \in DeleteNames} :
         Start(newfile, add, list, del)
    \/ ReadEmployees
    \/ AddEmployee
    \/ ListEmployees
    \/ DeleteEmployee
    \/ OutputFile

SpecShort == Init /\ [][NextShort]_vars

\* the runs that start on the full store
SpecFull == InitFull /\ [][Next]_vars

\* output_file lines 97..107 on their own: the header and employees[0] converted in
\* place and their bytes written
PackAndWrite ==
    /\ pc = "idle"
    /\ \E h \in {PackHeader(header)} :
          /\ header' = h
          /\ employees' = <<[employees[1] EXCEPT !.hours = htonl(@)]>>
          /\ file' = MkFile(HeaderBytes(h), <<EmployeeBytes(employees[1])>>)
    /\ pc' = "packed"
    /\ UNCHANGED <<hostLE, args, last, saved, hist>>

\* retrieve_and_validate_db_header lines 50..60 and read_employees lines 127..131 on
\* their own: the bytes read back and converted in place
ReadAndUnpack ==
    /\ pc = "packed"
    /\ header' = DecodeHeader(file.hdr)
    /\ employees' = <<ReadEmployee(file, 1, ZeroEmployee)>>
    /\ pc' = "unpacked"
    /\ UNCHANGED <<hostLE, file, args, last, saved, hist>>

NextCodec == PackAndWrite \/ ReadAndUnpack

SpecCodec == InitCodec /\ [][NextCodec]_vars


-----------------------------------------------------------------------------
(* Notions the properties are stated in *)

DECODED_MAGIC(f) == ValBE32(SubSeq(f.hdr, 1, 4))
DECODED_VERSION(f) == ValBE16(SubSeq(f.hdr, 5, 6))
DECODED_COUNT(f) == ValBE16(SubSeq(f.hdr, 7, 8))
DECODED_FILESIZE(f) == ValBE32(SubSeq(f.hdr, 9, 12))

\* the field values of an element, as a reader of the record finds them
Fields(e) == [name |-> NameStr(e), address |-> AddressStr(e), hours |-> e.hours]

\* name and address fit the fields: at most 255 characters and the terminator
WithinCapacity(g) == Len(g.name) <= NAME_SIZE - 1 /\ Len(g.address) <= NAME_SIZE - 1

Matches(emps, name) == {i \in 1..Len(emps) : NameStr(emps[i]) = name}

\* the flags of a run that only lists: -f path -l
ListOnly(a) == a.list /\ ~a.newfile /\ ~a.add.given /\ ~a.del.given

\* a store as the format defines it: a full header with the magic and the version,
\* as many records as count says and filesize the length of the file
WellFormed(f) ==
    /\ f.exists
    /\ Len(f.hdr) = HEADER_SIZE
    /\ f.junk = 0
    /\ DECODED_MAGIC(f) = HEADER_MAGIC
    /\ DECODED_VERSION(f) = HEADER_VERSION
    /\ DECODED_COUNT(f) = Len(f.recs)
    /\ DECODED_FILESIZE(f) = FileSize(f)

\* what an open of the file gives: the status of the validation, and on success
\* the header and the records read
Loaded(f) ==
    LET r == retrieve_and_validate_db_header(f)
    IN  [status |-> r.status, header |-> r.header,
         employees |-> IF r.status = STATUS_SUCCESS
                       THEN read_employees(f, r.header, ZeroEmployee) ELSE <<>>]

\* the add-string has fewer than three non-empty comma-separated fields
FewerThanThreeFields(s) ==
    \/ Strtok(s).null
    \/ Strtok(Strtok(s).rest).null
    \/ Strtok(Strtok(Strtok(s).rest).rest).null

AfterAdd == last.op = "add_employee"
AfterDelete == last.op = "delete_employee"
AfterValidate == last.op = "retrieve_and_validate_db_header"
AfterRead == last.op = "read_employees"
\* output_file ran and nothing went wrong with the descriptor
AfterSave == last.op = "output_file" /\ last.io = "ok"

-----------------------------------------------------------------------------
(* C1: a list handed to output_file is what the next
   retrieve_and_validate_db_header and read_employees of the file give back:
   validation succeeds, the header's count is the length of the list and the
   records are the same, in the same order, field by field. *)
C1_SaveLoadRoundTrip ==
    saved.any =>
        /\ AfterValidate =>
              last.status = STATUS_SUCCESS /\ last.header.count = Len(saved.employees)
        /\ (AfterRead /\ ~args.newfile) => employees = saved.employees

(* C2: in a store built from a new one by -a runs (each ending in a save), a
   later run opens the file, and its listing prints the records given to -a,
   in the order they were given, the count being their number. *)
C2_AppendsThenReopenAndList ==
    (hist.disk.known /\ \A i \in 1..Len(hist.disk.recs) : WithinCapacity(hist.disk.recs[i])) =>
        /\ AfterValidate =>
              last.status = STATUS_SUCCESS /\ last.header.count = Len(hist.disk.recs)
        /\ (last.op = "list_employees" /\ ~args.newfile /\ ~args.add.given) =>
              last.printed = [i \in 1..Len(hist.disk.recs) |->
                                <<hist.disk.recs[i].name, hist.disk.recs[i].address,
                                  hist.disk.recs[i].hours>>]

(* C3: add_employee with a name and an address within capacity, on n records
   with count n, ends with count n + 1 and n + 1 records: the first n as they
   were, the last one holding the given name, address and hours. *)
C3_AppendAddsGivenRecordLast ==
    (AfterAdd /\ WithinCapacity(Given(last.arg))) =>
        LET n == Len(last.employees)
        IN  /\ last.status = STATUS_SUCCESS
            /\ header.count = last.header.count + 1
            /\ Len(employees) = n + 1
            /\ SubSeq(employees, 1, n) = last.employees
            /\ Fields(employees[n + 1]) = Given(last.arg)

(* C4: delete_employee of a name some record has removes the record of least
   index with that name and nothing else: the others keep their field values
   and their order, and count goes down by one. *)
C4_DeleteRemovesFirstMatchOnly ==
    (AfterDelete /\ last.status # CRASH /\ Matches(last.employees, last.arg) # {}) =>
        LET at == Matches(last.employees, last.arg)
            d == CHOOSE i \in at : \A j \in at : i <= j
            n == Len(last.employees)
        IN  /\ header.count = last.header.count - 1
            /\ Len(employees) = n - 1
            /\ \A k \in 1..(n - 1) :
                 Fields(employees[k]) = Fields(last.employees[IF k < d THEN k ELSE k + 1])

(* C5: delete_employee of a name no record has returns an error to its caller
   and leaves count and the list as they were. *)
C5_DeleteOfAbsentNameIsAnError ==
    (AfterDelete /\ Matches(last.employees, last.arg) = {}) =>
        /\ last.status = STATUS_ERROR
        /\ header = last.header
        /\ employees = last.employees

C7_HeaderAcceptedIffMagicVersionSize ==
    AfterValidate =>
        /\ last.status = STATUS_SUCCESS <=>
              /\ Len(file.hdr) = HEADER_SIZE
              /\ DECODED_MAGIC(file) = HEADER_MAGIC
              /\ DECODED_VERSION(file) = HEADER_VERSION
              /\ DECODED_FILESIZE(file) = FileSize(file)
        /\ last.status # STATUS_SUCCESS => (pc = "idle" /\ last.header = ZeroHeader)
        /\ last.status = STATUS_SUCCESS =>
              (pc = "read" /\ header = last.header /\ header.count = DECODED_COUNT(file))

\* a header right in magic and version and wrong in filesize alone is rejected
C7_Witness ==
    /\ AfterValidate
    /\ last.status = STATUS_ERROR
    /\ Len(file.hdr) = HEADER_SIZE
    /\ DECODED_MAGIC(file) = HEADER_MAGIC
    /\ DECODED_VERSION(file) = HEADER_VERSION
    /\ DECODED_FILESIZE(file) # FileSize(file)

(* C8: read_employees returns an error whenever the file holds fewer than
   count * 516 bytes after its 12-byte header. *)
C8_ShortFileIsAnError ==
    (AfterRead /\ FileSize(file) < HEADER_SIZE + EMPLOYEE_SIZE * header.count) =>
        last.status = STATUS_ERROR

(* C9: the header output_file writes has a count that decodes to the length n
   of the list and a filesize that decodes to 12 + 516 * n. *)
C9_WrittenHeaderDerivedFromLength ==
    AfterSave =>
        /\ DECODED_COUNT(file) = Len(last.employees)
        /\ DECODED_FILESIZE(file) = HEADER_SIZE + EMPLOYEE_SIZE * Len(last.employees)

(* C10: after output_file returned success for n records the file is
   12 + 516 * n bytes long, the header followed by exactly the n records, and
   no element at an index >= n was read. *)
C10_WrittenFileIsHeaderPlusNRecords ==
    (AfterSave /\ last.status = STATUS_SUCCESS) =>
        LET n == Len(last.employees)
        IN  /\ FileSize(file) = HEADER_SIZE + EMPLOYEE_SIZE * n
            /\ Len(file.hdr) = HEADER_SIZE
            /\ Len(file.recs) = n
            /\ file.junk = 0
            /\ last.oob = 0

(* C11: retrieve_and_validate_db_header rejects a header whose filesize field
   differs from 12 + 516 * count, also when that filesize is the length of the
   file and magic and version are right. *)
C11_FilesizeCheckedAgainstCount ==
    (/\ AfterValidate
     /\ Len(file.hdr) = HEADER_SIZE
     /\ DECODED_FILESIZE(file) # HEADER_SIZE + EMPLOYEE_SIZE * DECODED_COUNT(file))
    => last.status = STATUS_ERROR

(* C12: after read_employees, add_employee and delete_employee, whether they
   succeeded or failed, the array holds header.count elements. *)
C12_ListLengthIsCount ==
    pc \in {"add", "list", "delete", "save"} => Length(employees) = header.count

(* C13: add_employee and delete_employee change the header and the array in
   memory only: the file is, after each of them, what it was before. *)
C13_AddAndDeleteLeaveTheFile ==
    (AfterAdd \/ AfterDelete) => (file = last.file /\ last.calls = <<>>)

\* a run appended a record and then deleted one, and the file still holds the
\* records it held
C13_Witness ==
    /\ AfterDelete
    /\ args.add.given
    /\ Len(employees) = Len(last.employees) - 1
    /\ Len(file.recs) > 0
    /\ Len(last.employees) = Len(file.recs) + 1

(* C14: retrieve_and_validate_db_header never changes the file, and a run whose
   validation failed ends there, without output_file: the file is what it was
   before the run. *)
C14_ValidationLeavesTheFile ==
    AfterValidate =>
        /\ file = last.file
        /\ \A i \in 1..Len(last.calls) : last.calls[i].call \in {"lseek", "read", "fstat"}
        /\ last.status = STATUS_ERROR => pc = "idle"

\* a file that holds a record failed validation
C14_Witness ==
    /\ AfterValidate
    /\ last.status = STATUS_ERROR
    /\ pc = "idle"
    /\ Len(file.recs) > 0

(* C15: create_db_header hands back magic 0x4c4c4144, version 1, count 0 and
   filesize 12, and writes nothing to the file. *)
C15_NewHeaderValues ==
    last.op = "create_db_header" =>
        /\ header = [magic |-> 1280065860, version |-> 1, count |-> 0, filesize |-> 12]
        /\ last.header = header
        /\ last.calls = <<>>
        /\ file = last.file

\* -n on a path that holds a store with records
C15_Witness ==
    /\ last.op = "create_db_header"
    /\ pc = "read"
    /\ args.newfile
    /\ Len(file.recs) > 0

(* C16: when ftruncate fails, or a write of the header or of a record fails or
   writes less than it was given, output_file returns an error; it returns
   success only when the header and all records were written in full. *)
C16_IoFailureIsReported ==
    LET c == last.calls
        failed(i) == \/ c[i].call = "ftruncate" /\ c[i].ret # 0
                     \/ c[i].call = "write" /\ c[i].ret # c[i].n
    IN  (last.op = "output_file" /\ \E i \in 1..Len(c) : failed(i))
            => last.status = STATUS_ERROR

(* C18: no function edits a record that stays in the array: after add_employee,
   list_employees and output_file every element that was there before has the
   name, address and hours it had, the header in memory holds magic 0x4c4c4144,
   version 1 and the count; so a second output_file would write the same file. *)
C18_RecordsAndHeaderNotEditedInPlace ==
    /\ (AfterAdd /\ last.status = STATUS_SUCCESS) =>
           /\ SubSeq(employees, 1, Len(last.employees)) = last.employees
           /\ header.magic = HEADER_MAGIC /\ header.version = HEADER_VERSION
    /\ last.op = "list_employees" => (employees = last.employees /\ header = last.header)
    /\ (AfterSave /\ last.status = STATUS_SUCCESS) =>
           LET h == last.after.header
               emps == last.after.employees
           IN  /\ Len(emps) = Len(last.employees)
               /\ \A i \in 1..Len(emps) : Fields(emps[i]) = Fields(last.employees[i])
               /\ h.magic = HEADER_MAGIC
               /\ h.version = HEADER_VERSION
               /\ h.count = last.header.count
               /\ output_file(file, h, emps, OobIterations(h, emps), "ok").file = file

(* C19: output_file first truncates the file to length 0, then seeks to offset
   0, then writes the 12 bytes of the header, then the records one at a time
   from index 0 upwards; no write comes before the truncation and no record
   before the header. *)
C19_SaveCallOrder ==
    AfterSave =>
        LET c == last.calls
        IN  /\ Len(c) >= 3
            /\ c[1].call = "ftruncate" /\ c[1].n = 0
            /\ c[2].call = "lseek" /\ c[2].n = 0
            /\ c[3].call = "write" /\ c[3].what = "header" /\ c[3].n = 12
            /\ \A k \in 4..Len(c) :
                  c[k].call = "write" /\ c[k].what = "record" /\ c[k].index = k - 4
            /\ Len(file.hdr) = 12
            /\ \A k \in 1..Len(file.recs) : file.recs[k] = EmployeeBytes(last.employees[k])

\* a save of three records went through
C19_Witness ==
    /\ AfterSave
    /\ last.status = STATUS_SUCCESS
    /\ Len(last.employees) = 3
    /\ Len(last.calls) = 6
    /\ Len(file.recs) = 3

(* C20: every record of the array after read_employees, add_employee and
   delete_employee, and every record output_file writes, has a name and an
   address with a terminator within the 256 bytes and zero bytes from the end of
   the text to byte 255, also when it was added from a text of 255 characters
   or more. *)
C20_FieldsTerminatedAndPadded ==
    LET padded(f) == Len(f.txt) <= NAME_SIZE - 1 /\ f.last = 0
    IN  /\ pc \in {"add", "list", "delete", "save"} =>
              \A i \in 1..Len(employees) :
                  padded(employees[i].name) /\ padded(employees[i].address)
        /\ AfterSave =>
              \A i \in 1..Len(file.recs) :
                  padded(file.recs[i].name) /\ padded(file.recs[i].address)

\* C17: on disk the header is magic (4 bytes), version (2), count (2) and filesize (4)
\* in that order, each of them and each record's hours stored big-endian on a
\* little-endian and on a big-endian host alike, and reading the bytes back with
\* ntohl/ntohs gives the values that were converted: the magic, the version, the
\* count and the hours the memory held, and the filesize output_file computed.
C17_BigEndianAndInverse ==
    /\ pc \in {"packed", "unpacked"} =>
          /\ file.hdr = BE32(last.header.magic) \o BE16(last.header.version)
                         \o BE16(last.header.count) \o BE32(PackedFilesize(last.header))
          /\ file.recs[1].hours = BE32(last.employees[1].hours)
    /\ pc = "unpacked" =>
          /\ header.magic = last.header.magic
          /\ header.version = last.header.version
          /\ header.count = last.header.count
          /\ header.filesize = PackedFilesize(last.header)
          /\ employees[1].hours = last.employees[1].hours

\* a little-endian host has written and read back fields whose bytes all differ
C17_Witness ==
    /\ pc = "unpacked"
    /\ hostLE
    /\ last.header.magic = ValBE32(<<1, 52, 255, 127>>)
    /\ last.header.count = 256
    /\ file.hdr = <<1, 52, 255, 127, 0, 1, 1, 0>> \o BE32(PackedFilesize(last.header))
    /\ employees[1].hours = ValBE32(<<1, 52, 255, 127>>)

(* C21: when the 12 header bytes were read, retrieve_and_validate_db_header
   reports every check that fails and no check that passes: "Invalid magic"
   exactly when the magic is not 0x4c4c4144, "Invalid version" exactly when the
   version is not 1, "Invalid filesize" exactly when filesize is not the length
   of the file, whichever of the three fail together. *)
C21_EveryFailingCheckReported ==
    (AfterValidate /\ Len(file.hdr) = HEADER_SIZE) =>
        /\ "Invalid magic" \in last.msgs <=> DECODED_MAGIC(file) # HEADER_MAGIC
        /\ "Invalid version" \in last.msgs <=> DECODED_VERSION(file) # HEADER_VERSION
        /\ "Invalid filesize" \in last.msgs <=> DECODED_FILESIZE(file) # FileSize(file)
        /\ last.msgs \subseteq {"Invalid magic", "Invalid version", "Invalid filesize"}

\* a header wrong in the magic and in the size and right in the version was
\* validated: both failures were reported and the version was not
C21_Witness ==
    /\ AfterValidate
    /\ Len(file.hdr) = HEADER_SIZE
    /\ DECODED_MAGIC(file) # HEADER_MAGIC
    /\ DECODED_VERSION(file) = HEADER_VERSION
    /\ DECODED_FILESIZE(file) # FileSize(file)
    /\ last.msgs = {"Invalid magic", "Invalid filesize"}

(* C22: when fewer than 12 bytes can be read at offset 0 of the file (an empty
   file included), retrieve_and_validate_db_header returns an error and hands
   back no header, the run ends, and the magic, version and size checks are
   not run: nothing of them is reported and fstat is not called. *)
C22_ShortHeaderIsAnError ==
    (AfterValidate /\ Len(file.hdr) < HEADER_SIZE) =>
        /\ last.status = STATUS_ERROR
        /\ last.header = ZeroHeader
        /\ pc = "idle"
        /\ last.msgs = {"valid_bytes_read"}
        /\ last.calls = <<Lseek(0), Read(HEADER_SIZE, Len(file.hdr))>>

\* a file of 5 bytes, the magic right, was opened and refused
C22_Witness ==
    /\ AfterValidate
    /\ Len(file.hdr) = 5
    /\ ValBE32(SubSeq(file.hdr, 1, 4)) = HEADER_MAGIC
    /\ last.status = STATUS_ERROR

(* C23: the file refines a sequence. In a store that began with a -n run and
   went through -a, -d and -l runs since, each of them ending in a save, every
   later open passes retrieve_and_validate_db_header, and read_employees gives
   the sequence obtained by appending for each -a and removing the first name
   match for each -d: as many records, with these names, addresses and hours,
   in this order. *)
C23_FileRefinesSequence ==
    hist.disk.known =>
        /\ AfterValidate => last.status = STATUS_SUCCESS
        /\ (AfterRead /\ ~args.newfile) =>
              /\ Len(employees) = Len(hist.disk.recs)
              /\ \A i \in 1..Len(hist.disk.recs) : Fields(employees[i]) = hist.disk.recs[i]

(* C24: delete_employee reads the elements 0 .. count-1 of the list and no
   other: whatever the list (the empty one included) and the name, matched or
   not, it makes no access to the element at index count or past it. *)
C24_DeleteStaysBelowCount ==
    AfterDelete => last.oob = 0

(* C25: the 16-bit count does not wrap. After every add_employee that returned
   success, on a store of 65535 records as on any other, count is one more than
   it was and is the number of elements of the array, and the new record was
   written inside the array. *)
C25_CountDoesNotWrap ==
    (AfterAdd /\ last.status = STATUS_SUCCESS) =>
        /\ header.count = last.header.count + 1
        /\ header.count = Length(employees)
        /\ last.oob = 0

(* C26: a run that only lists (-f path -l) on a well-formed store ends in
   output_file, and the store is logically what it was: an open of the file as
   the run leaves it passes validation and loads the same header and the same
   records, in the same order, as an open of the file the run found. *)
C26_ListOnlyRunKeepsTheStore ==
    [][(pc = "save" /\ ListOnly(args) /\ WellFormed(Disk) /\ pc' = "idle") =>
          /\ last'.op = "output_file"
          /\ Loaded(Disk').status = STATUS_SUCCESS
          /\ Loaded(Disk') = Loaded(Disk)]_vars

(* C27: a -n run on a path that holds a well-formed store with records does
   not load or keep them. It starts from a header with count 0 and read_employees
   gives it no record; after its save the file is a well-formed store of the
   records this run put in its list and of nothing else: a header alone
   without -a, and with -a the records appended, as the list held them, in a
   file that ends with the last of them. *)
C27_NewStoreDropsTheOldRecords ==
    [][(args.newfile /\ WellFormed(Disk) /\ Len(Disk.recs) > 0) =>
          /\ (pc = "read" /\ pc' # "read") => (header.count = 0 /\ employees' = <<>>)
          /\ (pc = "save" /\ pc' = "idle") =>
                LET f == Disk'
                    n == Len(hist.mem.recs)
                IN  /\ WellFormed(f)
                    /\ Len(f.recs) = n /\ n = Len(Mem)
                    /\ \A i \in 1..n : /\ f.recs[i].name = Mem[i].name
                                        /\ f.recs[i].address = Mem[i].address
                                        /\ f.recs[i].hours = BE32(Mem[i].hours)]_vars

(* C28: add_employee given an add-string with fewer than three non-empty
   comma-separated fields (no name, a name alone, or a name and an address
   without hours) returns STATUS_ERROR to main, which goes on with count and
   the list as they were. *)
C28_MissingFieldIsAnError ==
    (AfterAdd /\ FewerThanThreeFields(last.arg)) =>
        /\ last.status = STATUS_ERROR
        /\ header = last.header
        /\ employees = last.employees

=============================================================================
